---- MODULE Spec2Model ----
(***************************************************************************)
(* Model of src/Chatbot.py: a console chatbot that forwards each input     *)
(* line to a remote chat session through call_api_with_backoff.            *)
(*                                                                         *)
(* Strings read from the console are sequences of one-character strings,   *)
(* so that str.strip() and str.lower() are computed character by           *)
(* character.  The remote API (google.generativeai) is an opaque boundary: *)
(* every call into it either returns a value or raises an exception, and   *)
(* the model chooses the outcome nondeterministically.  Delays are         *)
(* non-negative integers of seconds, the domain of time.sleep.             *)
(***************************************************************************)
EXTENDS Integers, Sequences, FiniteSets, TLC

VARIABLES
    pc,          \* position of run_chatbot
    api_key,     \* os.environ.get("GOOGLE_API_KEY")
    configured,  \* genai.configure has been applied (process-wide state)
    model,       \* local `model` of run_chatbot
    chat,        \* local `chat` of run_chatbot: the session handle
    line,        \* the last line returned by input(), before strip()
    user_input,  \* local `user_input` of run_chatbot
    response,    \* local `response` of run_chatbot
    printed,     \* what has been printed since the last input() returned
    nRead,       \* number of lines input() has returned
    nSent,       \* number of send_message invocations of the whole run
    frame,       \* the activation of call_api_with_backoff
    calls,       \* the send_message invocations of that activation
    sleeps       \* the arguments of the time.sleep calls of that activation

vars == <<pc, api_key, configured, model, chat, line, user_input, response,
          printed, nRead, nSent, frame, calls, sleeps>>

loopVars == <<pc, api_key, configured, model, chat, line, user_input,
              response, printed, nRead>>

-----------------------------------------------------------------------------
(* Bounds *)

MaxRetries == 4
MaxDelay == 2
MaxInputs == 2

(* Defaults of call_api_with_backoff *)

DefaultMaxRetries == 5
DefaultInitialDelay == 1

-----------------------------------------------------------------------------
(* Values *)

NoKey == "None"
KeyValues == {NoKey, "", "secret"}

NoModel == "no_model"
TheModel == "gemini-1.5-flash"

NoSession == "no_session"
TheSession == "chat_1"

NoExc == "no_exception"
Errors == {"RateLimit", "Timeout"}

NoneResponse == [none |-> TRUE, text |-> ""]
Responses == {NoneResponse,
              [none |-> FALSE, text |-> ""],
              [none |-> FALSE, text |-> "Hello"],
              [none |-> FALSE, text |-> "World"]}

RetryValues == -1 .. MaxRetries
DelayValues == 0 .. MaxDelay

-----------------------------------------------------------------------------
(* Strings *)

Whitespace == {" ", "\t"}

LowerChar(c) ==
    CASE c = "E" -> "e"
      [] c = "X" -> "x"
      [] c = "I" -> "i"
      [] c = "T" -> "t"
      [] c = "Q" -> "q"
      [] c = "U" -> "u"
      [] c = "H" -> "h"
      [] OTHER -> c

lower_identity(s) == s

lower(s) == [k \in 1 .. Len(s) |-> LowerChar(s[k])]

RECURSIVE lstrip(_)
lstrip(s) ==
    IF s = <<>> THEN s
    ELSE IF Head(s) \in Whitespace THEN lstrip(Tail(s)) ELSE s

RECURSIVE rstrip(_)
rstrip(s) ==
    IF s = <<>> THEN s
    ELSE IF s[Len(s)] \in Whitespace THEN rstrip(SubSeq(s, 1, Len(s) - 1))
    ELSE s

strip_spaces_only(s) ==
    LET RECURSIVE l(_), r(_)
        l(t) == IF t = <<>> THEN t
                ELSE IF Head(t) = " " THEN l(Tail(t)) ELSE t
        r(t) == IF t = <<>> THEN t
                ELSE IF t[Len(t)] = " " THEN r(SubSeq(t, 1, Len(t) - 1))
                ELSE t
    IN  r(l(s))

strip(s) == rstrip(lstrip(s))

ExitCommands == {<<"e", "x", "i", "t">>, <<"q", "u", "i", "t">>}

(* The lines the console can deliver *)

UpperChar(c) ==
    CASE c = "e" -> "E"
      [] c = "x" -> "X"
      [] c = "i" -> "I"
      [] c = "t" -> "T"
      [] c = "q" -> "Q"
      [] c = "u" -> "U"
      [] c = "h" -> "H"
      [] OTHER -> c

CaseVariants(w) ==
    {s \in [1 .. Len(w) -> {w[k] : k \in 1 .. Len(w)}
                             \cup {UpperChar(w[k]) : k \in 1 .. Len(w)}] :
        \A k \in 1 .. Len(w) : s[k] \in {w[k], UpperChar(w[k])}}

Padded(s) == {s, <<" ">> \o s, s \o <<"\t">>, <<" ", "\t">> \o s \o <<" ", " ">>}

BlankLines == {<<>>, <<" ">>, <<"\t">>, <<" ", "\t", " ">>}

ExitLines == UNION {Padded(s) : s \in UNION {CaseVariants(w) : w \in ExitCommands}}

MessageLines ==
    Padded(<<"h", "i">>)
    \cup {<<"H", "i">>,
          <<"e", "x", "i">>,
          <<"E", "X", "I", "T", "S">>,
          <<"e", "x", " ", "i", "t">>,
          <<"q", "u", "i", "t", " ", "h", "i">>,
          <<" ", "e", "x", "i", "t", "!">>}

Lines == BlankLines \cup ExitLines \cup MessageLines

-----------------------------------------------------------------------------
(* call_api_with_backoff *)

IdleFrame ==
    [pc |-> "idle", chat_session |-> NoSession, user_message |-> <<>>,
     max_retries |-> 0, initial_delay |-> 0, delay |-> 0, i |-> 0,
     result |-> NoneResponse, exc |-> NoExc]

\* Entry of the function: parameters bound, delay = initial_delay, and the
\* range iterator about to produce its first index.
call_api_with_backoff(chat_session, user_message, max_retries, initial_delay) ==
    [pc |-> "for", chat_session |-> chat_session, user_message |-> user_message,
     max_retries |-> max_retries, initial_delay |-> initial_delay,
     delay |-> initial_delay, i |-> 0,
     result |-> NoneResponse, exc |-> NoExc]

Pending(session, message) ==
    [chat_session |-> session, user_message |-> message, state |-> "pending",
     ret |-> NoneResponse, exc |-> NoExc]

SetLast(seq, rec) == [seq EXCEPT ![Len(seq)] = rec]

HasRetryLeft_off_by_one(i, max_retries) == i < max_retries - 2

HasRetryLeft_sleeps_on_last(i, max_retries) == i < max_retries

HasRetryLeft(i, max_retries) == i < max_retries - 1

NextDelay_linear(delay) == delay + 1

NextDelay(delay) == delay * 2

for_iter_sleeps_first ==
    /\ frame.pc = "for"
    /\ IF frame.i < frame.max_retries
       THEN /\ frame' = [frame EXCEPT !.pc = "send"]
            /\ calls' = Append(calls, Pending(frame.chat_session, frame.user_message))
            /\ sleeps' = Append(sleeps, frame.delay)
            /\ nSent' = nSent + 1
       ELSE /\ frame' = [frame EXCEPT !.pc = "returned", !.result = NoneResponse]
            /\ UNCHANGED <<calls, sleeps, nSent>>
    /\ UNCHANGED loopVars

\* for i in range(max_retries): either the next attempt starts and
\* chat_session.send_message(user_message) is invoked, or the range is
\* exhausted and the function falls through to `return None`.
for_iter ==
    /\ frame.pc = "for"
    /\ IF frame.i < frame.max_retries
       THEN /\ frame' = [frame EXCEPT !.pc = "send"]
            /\ calls' = Append(calls, Pending(frame.chat_session, frame.user_message))
            /\ nSent' = nSent + 1
       ELSE /\ frame' = [frame EXCEPT !.pc = "returned", !.result = NoneResponse]
            /\ UNCHANGED <<calls, nSent>>
    /\ UNCHANGED <<sleeps, loopVars>>

send_message_returns_and_retries(resp) ==
    /\ frame.pc = "send"
    /\ calls' = SetLast(calls, [calls[Len(calls)] EXCEPT !.state = "ok", !.ret = resp])
    /\ frame' = [frame EXCEPT !.pc = "for", !.i = frame.i + 1]
    /\ UNCHANGED <<sleeps, nSent, loopVars>>

\* send_message returned: `return response`.
send_message_returns(resp) ==
    /\ frame.pc = "send"
    /\ calls' = SetLast(calls, [calls[Len(calls)] EXCEPT !.state = "ok", !.ret = resp])
    /\ frame' = [frame EXCEPT !.pc = "returned", !.result = resp]
    /\ UNCHANGED <<sleeps, nSent, loopVars>>

send_message_raises_returns_none(e) ==
    /\ frame.pc = "send"
    /\ calls' = SetLast(calls, [calls[Len(calls)] EXCEPT !.state = "failed", !.exc = e])
    /\ printed' = Append(printed, "api_call_failed")
    /\ IF frame.i < frame.max_retries - 1
       THEN /\ sleeps' = Append(sleeps, frame.delay)
            /\ frame' = [frame EXCEPT !.pc = "sleep"]
       ELSE /\ sleeps' = sleeps
            /\ frame' = [frame EXCEPT !.pc = "returned", !.result = NoneResponse]
    /\ UNCHANGED <<pc, api_key, configured, model, chat, line, user_input,
                   response, nRead, nSent>>

\* send_message raised e: the except clause prints the attempt, then either
\* calls time.sleep(delay) or re-raises.
send_message_raises(e) ==
    /\ frame.pc = "send"
    /\ calls' = SetLast(calls, [calls[Len(calls)] EXCEPT !.state = "failed", !.exc = e])
    /\ printed' = Append(printed, "api_call_failed")
    /\ IF HasRetryLeft(frame.i, frame.max_retries)
       THEN /\ sleeps' = Append(sleeps, frame.delay)
            /\ frame' = [frame EXCEPT !.pc = "sleep"]
       ELSE /\ sleeps' = sleeps
            /\ frame' = [frame EXCEPT !.pc = "raised", !.exc = e]
    /\ UNCHANGED <<pc, api_key, configured, model, chat, line, user_input,
                   response, nRead, nSent>>

sleep_returns_same_index ==
    /\ frame.pc = "sleep"
    /\ frame' = [frame EXCEPT !.pc = "for", !.delay = frame.delay * 2]
    /\ UNCHANGED <<calls, sleeps, nSent, loopVars>>

\* time.sleep returned: `delay *= 2`, and the loop goes to its next index.
sleep_returns ==
    /\ frame.pc = "sleep"
    /\ frame' = [frame EXCEPT !.pc = "for",
                              !.delay = NextDelay(frame.delay),
                              !.i = frame.i + 1]
    /\ UNCHANGED <<calls, sleeps, nSent, loopVars>>

-----------------------------------------------------------------------------
(* configure_gemini_api, get_gemini_model *)

Falsy_none_only(key) == key = NoKey

Falsy(key) == key \in {NoKey, ""}

\* genai.configure either returns or raises (ok).
configure_gemini_api ==
    /\ pc = "configure"
    /\ \E ok \in BOOLEAN :
         IF ~Falsy(api_key) /\ ok
         THEN /\ configured' = TRUE
              /\ printed' = Append(printed, "configured")
              /\ pc' = "get_model"
         ELSE /\ configured' = configured
              /\ printed' = printed \o <<"error_configuring", "key_hint">>
              /\ pc' = "exit1"
    /\ UNCHANGED <<api_key, model, chat, line, user_input, response, nRead,
                   nSent, frame, calls, sleeps>>

\* genai.GenerativeModel(model_name) either returns or raises (ok).
get_gemini_model ==
    /\ pc = "get_model"
    /\ \E ok \in BOOLEAN :
         IF ok
         THEN /\ model' = TheModel
              /\ printed' = Append(printed, "initialized_model")
              /\ pc' = "start_chat"
         ELSE /\ model' = model
              /\ printed' = printed \o <<"error_initializing_model", "model_hint">>
              /\ pc' = "exit1"
    /\ UNCHANGED <<api_key, configured, chat, line, user_input, response,
                   nRead, nSent, frame, calls, sleeps>>

-----------------------------------------------------------------------------
(* run_chatbot *)

\* chat = model.start_chat(history=[]) either returns the session or raises
\* (ok); on return the welcome banner is printed and the loop is entered.
start_chat ==
    /\ pc = "start_chat"
    /\ \E ok \in BOOLEAN :
         IF ok
         THEN /\ chat' = TheSession
              /\ printed' = Append(printed, "welcome_banner")
              /\ pc' = "loop"
         ELSE /\ chat' = chat
              /\ printed' = printed
              /\ pc' = "uncaught"
    /\ UNCHANGED <<api_key, configured, model, line, user_input, response,
                   nRead, nSent, frame, calls, sleeps>>

read_input_exit_on_raw(l) ==
    /\ pc = "loop"
    /\ nRead < MaxInputs
    /\ nRead' = nRead + 1
    /\ line' = l
    /\ user_input' = strip(l)
    /\ IF lower(l) \in ExitCommands
       THEN /\ printed' = <<"goodbye", "closing_banner">>
            /\ pc' = "done"
            /\ frame' = frame
       ELSE IF user_input' = <<>>
       THEN /\ printed' = <<"please_enter">>
            /\ pc' = "loop"
            /\ frame' = frame
       ELSE /\ printed' = <<>>
            /\ pc' = "call"
            /\ frame' = call_api_with_backoff(chat, user_input',
                                              DefaultMaxRetries, DefaultInitialDelay)
    /\ UNCHANGED <<api_key, configured, model, chat, response, nSent, calls, sleeps>>

\* One pass of the loop from input() to break, continue or the entry of
\* call_api_with_backoff(chat, user_input).
read_input(l) ==
    /\ pc = "loop"
    /\ nRead < MaxInputs
    /\ nRead' = nRead + 1
    /\ line' = l
    /\ user_input' = strip(l)
    /\ IF lower(user_input') \in ExitCommands
       THEN /\ printed' = <<"goodbye", "closing_banner">>
            /\ pc' = "done"
            /\ frame' = frame
       ELSE IF user_input' = <<>>
       THEN /\ printed' = <<"please_enter">>
            /\ pc' = "loop"
            /\ frame' = frame
       ELSE /\ printed' = <<>>
            /\ pc' = "call"
            /\ frame' = call_api_with_backoff(chat, user_input',
                                              DefaultMaxRetries, DefaultInitialDelay)
    /\ UNCHANGED <<api_key, configured, model, chat, response, nSent, calls, sleeps>>

\* input() raises EOFError outside any try block.
input_eof ==
    /\ pc = "loop"
    /\ pc' = "uncaught"
    /\ UNCHANGED <<api_key, configured, model, chat, line, user_input, response,
                   printed, nRead, nSent, frame, calls, sleeps>>

Truthy_ignores_text(r) == ~r.none

Truthy(r) == ~r.none /\ r.text # ""

response_received_new_session ==
    /\ pc = "call"
    /\ frame.pc = "returned"
    /\ response' = frame.result
    /\ printed' = Append(printed, IF ~response'.none /\ response'.text # ""
                                  THEN "bot_reply" ELSE "no_clear_response")
    /\ pc' = "loop"
    /\ chat' = "chat_2"
    /\ frame' = IdleFrame
    /\ calls' = <<>>
    /\ sleeps' = <<>>
    /\ UNCHANGED <<api_key, configured, model, line, user_input, nRead, nSent>>

\* call_api_with_backoff returned: the reply is printed, or the
\* "no clear response" message, and the loop goes on.
response_received ==
    /\ pc = "call"
    /\ frame.pc = "returned"
    /\ response' = frame.result
    /\ printed' = Append(printed, IF Truthy(response') THEN "bot_reply"
                                  ELSE "no_clear_response")
    /\ pc' = "loop"
    /\ frame' = IdleFrame
    /\ calls' = <<>>
    /\ sleeps' = <<>>
    /\ UNCHANGED <<api_key, configured, model, chat, line, user_input, nRead, nSent>>

api_error_caught_and_continues ==
    /\ pc = "call"
    /\ frame.pc = "raised"
    /\ printed' = printed \o <<"unrecoverable_error", "restart_hint">>
    /\ pc' = "loop"
    /\ frame' = IdleFrame
    /\ calls' = <<>>
    /\ sleeps' = <<>>
    /\ UNCHANGED <<api_key, configured, model, chat, line, user_input, response,
                   nRead, nSent>>

\* call_api_with_backoff raised: the diagnostic is printed, the loop is left
\* with break, the closing banner is printed and run_chatbot returns.
api_error_caught ==
    /\ pc = "call"
    /\ frame.pc = "raised"
    /\ printed' = printed \o <<"unrecoverable_error", "restart_hint", "closing_banner">>
    /\ pc' = "done"
    /\ frame' = IdleFrame
    /\ calls' = <<>>
    /\ sleeps' = <<>>
    /\ UNCHANGED <<api_key, configured, model, chat, line, user_input, response,
                   nRead, nSent>>

-----------------------------------------------------------------------------
(* Specifications *)

\* The program: python Chatbot.py, with any value of GOOGLE_API_KEY.
Init ==
    /\ pc = "configure"
    /\ api_key \in KeyValues
    /\ configured = FALSE
    /\ model = NoModel
    /\ chat = NoSession
    /\ line = <<>>
    /\ user_input = <<>>
    /\ response = NoneResponse
    /\ printed = <<>>
    /\ nRead = 0
    /\ nSent = 0
    /\ frame = IdleFrame
    /\ calls = <<>>
    /\ sleeps = <<>>

Next ==
    \/ configure_gemini_api
    \/ get_gemini_model
    \/ start_chat
    \/ \E l \in Lines : read_input(l)
    \/ input_eof
    \/ for_iter
    \/ \E resp \in Responses : send_message_returns(resp)
    \/ \E e \in Errors : send_message_raises(e)
    \/ sleep_returns
    \/ response_received
    \/ api_error_caught

Spec == Init /\ [][Next]_vars

\* call_api_with_backoff called on its own, with any max_retries and
\* initial_delay, on an existing session.
InitBackoff ==
    /\ pc = "call"
    /\ api_key = "secret"
    /\ configured = TRUE
    /\ model = TheModel
    /\ chat = TheSession
    /\ line = <<"h", "i">>
    /\ user_input = <<"h", "i">>
    /\ response = NoneResponse
    /\ printed = <<>>
    /\ nRead = 1
    /\ nSent = 0
    /\ calls = <<>>
    /\ sleeps = <<>>
    /\ \E r \in RetryValues, d \in DelayValues :
         frame = call_api_with_backoff(chat, user_input, r, d)

NextBackoff ==
    \/ for_iter
    \/ \E resp \in Responses : send_message_returns(resp)
    \/ \E e \in Errors : send_message_raises(e)
    \/ sleep_returns

SpecBackoff == InitBackoff /\ [][NextBackoff]_vars

\* The same, where every send_message invocation and every time.sleep
\* eventually returns and the interpreter keeps running the function.
FairSpecBackoff ==
    /\ SpecBackoff
    /\ WF_vars(for_iter)
    /\ WF_vars((\E resp \in Responses : send_message_returns(resp))
                  \/ (\E e \in Errors : send_message_raises(e)))
    /\ WF_vars(sleep_returns)

TypeOK ==
    /\ pc \in {"configure", "get_model", "start_chat", "loop", "call",
               "done", "exit1", "uncaught"}
    /\ api_key \in KeyValues
    /\ configured \in BOOLEAN
    /\ model \in {NoModel, TheModel}
    /\ chat \in {NoSession, TheSession}
    /\ response \in Responses
    /\ nRead \in 0 .. MaxInputs
    /\ nSent \in Nat
    /\ frame.pc \in {"idle", "for", "send", "sleep", "returned", "raised"}
    /\ frame.result \in Responses
    /\ frame.exc \in Errors \cup {NoExc}
    /\ Len(calls) <= nSent

-----------------------------------------------------------------------------
(* Properties of call_api_with_backoff, checked under SpecBackoff *)

RECURSIVE Pow2(_)
Pow2(n) == IF n <= 0 THEN 1 ELSE 2 * Pow2(n - 1)

RECURSIVE SumSeq(_)
SumSeq(q) == IF q = <<>> THEN 0 ELSE Head(q) + SumSeq(Tail(q))

Terminated == frame.pc \in {"returned", "raised"}

AllFailed == \A k \in 1 .. Len(calls) : calls[k].state = "failed"

\* C1: with max_retries = R >= 1, the operation is never invoked more than R
\* times, a failure propagates only after exactly R failed invocations, and a
\* call in which every invocation failed ends by propagating the failure.
C1_FailsAfterExactlyRInvocations ==
    frame.max_retries >= 1 =>
        /\ Len(calls) <= frame.max_retries
        /\ frame.pc = "raised" => (Len(calls) = frame.max_retries /\ AllFailed)
        /\ (Terminated /\ AllFailed) => frame.pc = "raised"

C1_Witness ==
    /\ frame.pc = "raised"
    /\ frame.max_retries = 4
    /\ Len(calls) = 4
    /\ AllFailed

\* C2: the k-th sleep follows the k-th failed attempt and precedes the k-th
\* retry, and its length is initial_delay * 2^(k-1).
C2_DelayBeforeKthRetry ==
    /\ \A k \in 1 .. Len(sleeps) : sleeps[k] = frame.initial_delay * Pow2(k - 1)
    /\ frame.pc \in {"sleep", "for"} =>
          /\ Len(sleeps) = Len(calls)
          /\ AllFailed
    /\ frame.pc \in {"send", "returned", "raised"} /\ calls # <<>> =>
          Len(sleeps) = Len(calls) - 1

C2_Witness ==
    /\ frame.initial_delay = 2
    /\ Len(sleeps) = 3
    /\ sleeps[3] = 8
    /\ Len(calls) = 4

\* C3: with max_retries <= 0 a finished call has either raised an error or
\* invoked the operation exactly once without sleeping.
C3_NonPositiveRetriesRejectedOrOnce ==
    (frame.max_retries <= 0 /\ Terminated) =>
        \/ frame.pc = "raised"
        \/ (Len(calls) = 1 /\ sleeps = <<>>)

\* C4: once the k-th invocation succeeds after k-1 failures, the operation
\* has been invoked exactly k times (k <= max_retries), the call returns the
\* k-th invocation's result, and the sleeps add up to
\* initial_delay * (2^(k-1) - 1).
C4_SucceedsOnKthAttempt ==
    \A k \in 1 .. Len(calls) :
        calls[k].state = "ok" =>
            /\ Len(calls) = k
            /\ k <= frame.max_retries
            /\ \A j \in 1 .. k - 1 : calls[j].state = "failed"
            /\ frame.pc = "returned"
            /\ frame.result = calls[k].ret
            /\ SumSeq(sleeps) = frame.initial_delay * (Pow2(k - 1) - 1)

C4_Witness ==
    /\ frame.initial_delay = 1
    /\ frame.max_retries = 3
    /\ Len(calls) = 3
    /\ calls[3].state = "ok"
    /\ calls[3].ret.text = "World"
    /\ frame.result.text = "World"
    /\ SumSeq(sleeps) = 3

\* C5: a first attempt that succeeds is the only invocation, nothing is
\* slept, and its result is returned.
C5_FirstAttemptSuccess ==
    (calls # <<>> /\ calls[1].state = "ok") =>
        /\ Len(calls) = 1
        /\ sleeps = <<>>
        /\ frame.pc = "returned"
        /\ frame.result = calls[1].ret

C5_Witness ==
    /\ frame.max_retries >= 2
    /\ frame.initial_delay >= 1
    /\ calls # <<>>
    /\ calls[1].state = "ok"
    /\ frame.pc = "returned"
    /\ sleeps = <<>>

\* C6: when the max_retries-th attempt fails, the failure propagates in that
\* same step without a sleep; the exhausted call has slept exactly
\* max_retries - 1 times, and nothing is invoked or slept afterwards.
C6_NoWaitAfterFinalFailure ==
    [][ /\ (frame.pc = "send" /\ Len(calls) = frame.max_retries
               /\ calls'[Len(calls')].state = "failed") =>
            /\ frame'.pc = "raised"
            /\ frame'.exc = calls'[Len(calls')].exc
            /\ sleeps' = sleeps
            /\ Len(sleeps) = frame.max_retries - 1
        /\ frame'.pc = "raised" =>
            /\ Len(sleeps') = frame.max_retries - 1
            /\ Len(calls') = frame.max_retries
        /\ frame.pc = "raised" => UNCHANGED <<calls, sleeps, nSent>>
      ]_vars

C6_Witness ==
    /\ frame.pc = "raised"
    /\ frame.max_retries = 3
    /\ Len(sleeps) = 2
    /\ calls[3].state = "failed"

-----------------------------------------------------------------------------
(* Properties of run_chatbot, checked under Spec *)

IsBlankLine(l) == \A k \in 1 .. Len(l) : l[k] \in Whitespace

IsExitWord(l) == \E w \in ExitCommands : l \in CaseVariants(w)

LineRead == pc = "loop" /\ nRead' = nRead + 1

LastPrinted(p) == IF p = <<>> THEN "nothing" ELSE p[Len(p)]

\* C7: reading an empty or whitespace-only line invokes nothing: the step
\* prints the local prompt message, leaves the session and the invocation
\* count as they were, and is back at input().
C7_BlankInputNeverSent ==
    [][ (LineRead /\ IsBlankLine(line')) =>
            /\ printed' = <<"please_enter">>
            /\ pc' = "loop"
            /\ nSent' = nSent
            /\ UNCHANGED <<chat, frame, calls>>
      ]_vars

C7_Witness ==
    /\ pc = "loop"
    /\ line = <<" ", "\t", " ">>
    /\ printed = <<"please_enter">>
    /\ nRead = 2

\* C8: reading a line that is "exit" or "quit" in any letter case ends the
\* loop without an invocation, and once run_chatbot is done nothing more is
\* read or sent.
C8_ExitKeywordEndsLoop ==
    [][ /\ (LineRead /\ IsExitWord(line')) =>
            /\ pc' = "done"
            /\ printed'[1] = "goodbye"
            /\ nSent' = nSent
            /\ UNCHANGED <<frame, calls>>
        /\ pc = "done" => (nRead' = nRead /\ nSent' = nSent)
      ]_vars

C8_Witness ==
    /\ pc = "done"
    /\ line = <<"Q", "u", "I", "t">>
    /\ printed = <<"goodbye", "closing_banner">>

Contains(p, m) == \E k \in 1 .. Len(p) : p[k] = m

\* C9: an error raised by call_api_with_backoff comes after
\* DefaultMaxRetries failed invocations; the loop prints the diagnostic and
\* the closing banner and run_chatbot returns normally, the step reads and
\* sends nothing, and no step follows.
C9_ExhaustedRetriesEndLoopOnly ==
    [][ /\ (pc = "call" /\ frame.pc = "raised") =>
            /\ Len(calls) = DefaultMaxRetries
            /\ AllFailed
            /\ pc' = "done"
            /\ Contains(printed', "unrecoverable_error")
            /\ LastPrinted(printed') = "closing_banner"
            /\ nRead' = nRead
            /\ nSent' = nSent
        /\ (pc = "done" /\ Contains(printed, "unrecoverable_error")) => UNCHANGED vars
      ]_vars

C9_Witness ==
    /\ pc = "done"
    /\ Contains(printed, "unrecoverable_error")
    /\ LastPrinted(printed) = "closing_banner"
    /\ nSent = DefaultMaxRetries

-----------------------------------------------------------------------------
(* Properties of the startup, checked under Spec *)

Diagnostics == {"error_configuring", "error_initializing_model"}

\* C11: with GOOGLE_API_KEY absent or empty, the run never leaves
\* configure_gemini_api except through exit(1) with the diagnostic printed:
\* nothing is configured, no model and no session exist, nothing is read and
\* nothing is sent.
C11_MissingCredentialIsFatal ==
    (api_key = NoKey \/ api_key = "") =>
        /\ pc \in {"configure", "exit1"}
        /\ pc = "exit1" => Contains(printed, "error_configuring")
        /\ ~configured
        /\ model = NoModel
        /\ chat = NoSession
        /\ nRead = 0
        /\ nSent = 0
        /\ calls = <<>>

C11_Witness ==
    /\ api_key = ""
    /\ pc = "exit1"
    /\ printed = <<"error_configuring", "key_hint">>

-----------------------------------------------------------------------------
(* Properties of the session and of the sequencing, checked under Spec *)

Outstanding == {k \in 1 .. Len(calls) : calls[k].state = "pending"}

\* C13: the session handle changes only once, in start_chat, from "no
\* session" and after configuration and model initialization; whenever
\* something has been sent or a call is in progress the session exists, and
\* every invocation went through that session.
C13_SessionBeforeAnyMessage ==
    /\ [][chat' # chat =>
            /\ pc = "start_chat"
            /\ chat = NoSession
            /\ configured
            /\ model = TheModel
            /\ nSent = 0
         ]_vars
    /\ [](nSent > 0 => chat # NoSession)
    /\ [](frame.pc # "idle" => (chat # NoSession /\ frame.chat_session = chat))
    /\ [](\A k \in 1 .. Len(calls) : calls[k].chat_session = chat)

C13_Witness ==
    /\ nRead = 2
    /\ nSent >= 3
    /\ Len(calls) = 2
    /\ calls[1].chat_session = TheSession
    /\ calls[2].chat_session = TheSession
    /\ chat = TheSession

\* C14: a call of call_api_with_backoff is entered only by reading a line that
\* is neither an exit word nor blank, with max_retries = 5 and
\* initial_delay = 1; it makes at most 5 invocations and sleeps at most 15
\* seconds; a line is read only when no call is in progress; and at most one
\* invocation is pending at any time.
C14_OneInteractionAtATime ==
    /\ [][ /\ (frame.pc = "idle" /\ frame'.pc # "idle") =>
                /\ LineRead
                /\ frame' = call_api_with_backoff(chat, user_input', 5, 1)
                /\ calls = <<>>
           /\ (LineRead /\ user_input' # <<>> /\ ~IsExitWord(user_input')) =>
                /\ pc' = "call"
                /\ frame'.pc = "for"
           /\ LineRead => (frame.pc = "idle" /\ Outstanding = {})
           /\ nSent' # nSent => (pc = "call" /\ nSent' = nSent + 1
                                   /\ Len(calls') = Len(calls) + 1)
         ]_vars
    /\ [](Len(calls) <= 5 /\ SumSeq(sleeps) <= 15 /\ Len(sleeps) <= 4)
    /\ [](Cardinality(Outstanding) <= 1)
    /\ []((pc = "call") <=> (frame.pc # "idle"))
    /\ [](nSent <= 5 * nRead)

C14_Witness ==
    /\ pc = "call"
    /\ Len(calls) = 5
    /\ SumSeq(sleeps) = 15
    /\ Cardinality(Outstanding) = 1
    /\ nRead = 2


-----------------------------------------------------------------------------
(* Further properties of call_api_with_backoff *)

Succeeded == {k \in 1 .. Len(calls) : calls[k].state = "ok"}

\* C15: with max_retries >= 1 at most one invocation ever succeeds and it is
\* the last one; a call that has returned returns that invocation's result
\* (so it did not fall through to `return None`), and a call that has raised
\* raises the exception of its max_retries-th invocation after no success.
C15_ReturnsSuccessOrRaisesLast ==
    frame.max_retries >= 1 =>
        /\ Cardinality(Succeeded) <= 1
        /\ Succeeded \subseteq {Len(calls)}
        /\ frame.pc = "returned" =>
              /\ Succeeded = {Len(calls)}
              /\ frame.result = calls[Len(calls)].ret
              /\ frame.exc = NoExc
        /\ frame.pc = "raised" =>
              /\ Succeeded = {}
              /\ Len(calls) = frame.max_retries
              /\ frame.exc = calls[frame.max_retries].exc
              /\ frame.exc \in Errors

C15_Witness ==
    /\ frame.pc = "raised"
    /\ frame.max_retries = 3
    /\ calls[1].exc = "Timeout"
    /\ calls[2].exc = "Timeout"
    /\ calls[3].exc = "RateLimit"
    /\ frame.exc = "RateLimit"

\* C16: when every invocation and every sleep returns, the call terminates,
\* and it never makes more than max_retries invocations (none when
\* max_retries <= 0), however large the delay has grown.
C16_AlwaysTerminates ==
    /\ <>Terminated
    /\ [](Len(calls) <= (IF frame.max_retries > 0 THEN frame.max_retries ELSE 0))
    /\ [](frame.i <= (IF frame.max_retries > 0 THEN frame.max_retries - 1 ELSE 0))

C16_Witness ==
    /\ Terminated
    /\ frame.max_retries = 4
    /\ Len(calls) = 4
    /\ frame.delay = 8 * frame.initial_delay
    /\ frame.initial_delay = 2

-----------------------------------------------------------------------------
(* The message that is sent *)

\* l is s with whitespace around it, and s has none at either end.
IsStrippedFrom(s, l) ==
    /\ s # <<>> => (s[1] \notin Whitespace /\ s[Len(s)] \notin Whitespace)
    /\ \E a \in 0 .. Len(l) :
          /\ a + Len(s) <= Len(l)
          /\ \A k \in 1 .. a : l[k] \in Whitespace
          /\ \A k \in 1 .. Len(s) : l[a + k] = s[k]
          /\ \A k \in a + Len(s) + 1 .. Len(l) : l[k] \in Whitespace

IsPaddedExitWord(l) ==
    \E a \in 1 .. Len(l), b \in 1 .. Len(l) :
        /\ a <= b
        /\ IsExitWord(SubSeq(l, a, b))
        /\ \A k \in (1 .. a - 1) \cup (b + 1 .. Len(l)) : l[k] \in Whitespace

\* C17: every invocation of a call carries the call's user_message and
\* chat_session; in run_chatbot that message is the line read with the
\* whitespace at its ends removed; and a line that is an exit word in any
\* case with whitespace around it ends the loop with nothing sent.
C17_SameStrippedMessageEveryAttempt ==
    /\ [](\A k \in 1 .. Len(calls) :
            /\ calls[k].user_message = frame.user_message
            /\ calls[k].chat_session = frame.chat_session)
    /\ [](pc = "call" =>
            /\ frame.user_message = user_input
            /\ frame.chat_session = chat
            /\ user_input # <<>>
            /\ IsStrippedFrom(user_input, line))
    /\ [][ (LineRead /\ IsPaddedExitWord(line')) =>
              /\ pc' = "done"
              /\ nSent' = nSent
              /\ UNCHANGED <<frame, calls>>
         ]_vars

C17_Witness ==
    /\ pc = "done"
    /\ line = <<" ", "\t", "Q", "U", "I", "T", " ", " ">>
    /\ user_input = <<"Q", "U", "I", "T">>
    /\ printed = <<"goodbye", "closing_banner">>
    /\ nRead = 2
    /\ nSent >= 2

====
